---- MODULE Spec2Model ----
(***************************************************************************)
(* A model of jd-animate: the animate() driver of src/src/animate.ts and   *)
(* the EasingFunctions catalogue of src/src/easing.ts, together with the   *)
(* parts of the host the driver talks to: the animation frame callback     *)
(* list (requestAnimationFrame / cancelAnimationFrame), the event listener *)
(* lists of the elements (addEventListener / removeEventListener / event   *)
(* dispatch) and the promise returned by animate().                        *)
(***************************************************************************)
EXTENDS Integers, Sequences, FiniteSets, TLC

VARIABLES
  defaultOptions,   \* the module-level defaultOptions object
  calls,            \* number of animate() calls made so far; call r is run r
  run,              \* per run: its closure state, its promise, what was observed of it
  frameCallbacks,   \* the host's list of pending animation frame callbacks
  nextHandle,       \* the handle the next requestAnimationFrame returns
  listeners,        \* the host's registered event listeners
  clock,            \* <<>> or <<timestamp of the latest frame delivered>>
  probeFn,          \* easing probe: name of the function applied
  probeArg,         \* easing probe: its argument
  probeResult,      \* easing probe: <<>> or <<its result>>
  probeDone         \* easing probe: number of applications made so far

runVars == <<defaultOptions, calls, run, frameCallbacks, nextHandle, listeners, clock>>

probeVars == <<probeFn, probeArg, probeResult, probeDone>>

vars == <<runVars, probeVars>>

(***************************************************************************)
(* Bounds of the model.                                                    *)
(***************************************************************************)
MaxDelta == 1         \* a frame is at most MaxDelta quanta after the previous
MaxProbeDen == 4      \* probe arguments are k / MaxProbeDen
MaxProbes == 2        \* easing applications in one behaviour of the probe

(***************************************************************************)
(* Numbers. A JavaScript number is modelled as an exact fraction           *)
(* [n |-> numerator, d |-> denominator] in lowest terms with d >= 0; d = 0  *)
(* stands for the non-finite results of a division by zero (n = 0: NaN,     *)
(* n = 1: Infinity, n = -1: -Infinity).                                     *)
(***************************************************************************)
\* Body(v) with v evaluated once, before Body reads it (JavaScript passes
\* arguments by value)
ByValue(v, Body(_)) == CHOOSE out \in {Body(x) : x \in {v}} : TRUE

Abs(x) == IF x < 0 THEN 0 - x ELSE x

Sign(x) == IF x < 0 THEN 0 - 1 ELSE IF x > 0 THEN 1 ELSE 0

RECURSIVE GCD(_, _)
GCD(a, b) ==
  IF b = 0 THEN a ELSE ByValue(<<b, a % b>>, LAMBDA p : GCD(p[1], p[2]))

\* the fraction n / d in lowest terms
Norm(n, d) ==
  ByValue(<<n, d>>, LAMBDA p :
    IF p[2] = 0 THEN [n |-> Sign(p[1]), d |-> 0]
    ELSE ByValue(GCD(Abs(p[1]), Abs(p[2])), LAMBDA g :
           [n |-> Sign(p[2]) * (p[1] \div g), d |-> Abs(p[2]) \div g]))

Num(i) == [n |-> i, d |-> 1]
Zero == Num(0)
One == Num(1)
Half == [n |-> 1, d |-> 2]

Add(a, b) ==
  ByValue(<<a, b>>, LAMBDA p :
    Norm(p[1].n * p[2].d + p[2].n * p[1].d, p[1].d * p[2].d))
Sub(a, b) ==
  ByValue(<<a, b>>, LAMBDA p :
    Norm(p[1].n * p[2].d - p[2].n * p[1].d, p[1].d * p[2].d))
Mul(a, b) ==
  ByValue(<<a, b>>, LAMBDA p : Norm(p[1].n * p[2].n, p[1].d * p[2].d))
Div(a, b) ==
  ByValue(<<a, b>>, LAMBDA p : Norm(p[1].n * p[2].d, p[1].d * p[2].n))
\* a < b; false when either side is not finite, as a comparison with NaN is
Lt(a, b) == a.d # 0 /\ b.d # 0 /\ a.n * b.d < b.n * a.d

(***************************************************************************)
(* src/src/easing.ts: the thirteen easing functions. In the functions that *)
(* write --t, t is decremented before any factor reads it, so every factor *)
(* is t - 1.                                                               *)
(***************************************************************************)
linear(t) == t

easeInQuad(t) == Mul(t, t)

easeOutQuad(t) == Mul(t, Sub(Num(2), t))

easeInOutQuad(t) ==
  IF Lt(t, Half) THEN Mul(Mul(Num(2), t), t)
  ELSE Add(Num(0 - 1), Mul(Sub(Num(4), Mul(Num(2), t)), t))

easeInCubic(t) == Mul(Mul(t, t), t)

easeInOutQuint_keepT(t) ==
  IF Lt(t, Half) THEN Mul(Mul(Mul(Mul(Mul(Num(16), t), t), t), t), t)
  ELSE Add(One, Mul(Mul(Mul(Mul(Mul(Num(16), t), t), t), t), t))

easeOutCubic(t) == LET u == Sub(t, One) IN Add(Mul(Mul(u, u), u), One)

easeInOutCubic(t) ==
  IF Lt(t, Half) THEN Mul(Mul(Mul(Num(4), t), t), t)
  ELSE LET v == Sub(Mul(Num(2), t), Num(2))
       IN  Add(Mul(Mul(Sub(t, One), v), v), One)

easeInQuart(t) == Mul(Mul(Mul(t, t), t), t)

easeOutQuart(t) ==
  LET u == Sub(t, One) IN Sub(One, Mul(Mul(Mul(u, u), u), u))

easeInOutQuart(t) ==
  IF Lt(t, Half) THEN Mul(Mul(Mul(Mul(Num(8), t), t), t), t)
  ELSE LET u == Sub(t, One)
       IN  Sub(One, Mul(Mul(Mul(Mul(Num(8), u), u), u), u))

easeInQuint(t) == Mul(Mul(Mul(Mul(t, t), t), t), t)

easeOutQuint(t) ==
  LET u == Sub(t, One) IN Add(One, Mul(Mul(Mul(Mul(u, u), u), u), u))

easeInOutQuint(t) ==
  IF Lt(t, Half) THEN Mul(Mul(Mul(Mul(Mul(Num(16), t), t), t), t), t)
  ELSE LET u == Sub(t, One)
       IN  Add(One, Mul(Mul(Mul(Mul(Mul(Num(16), u), u), u), u), u))

EasingNames ==
  {"linear", "easeInQuad", "easeOutQuad", "easeInOutQuad",
   "easeInCubic", "easeOutCubic", "easeInOutCubic",
   "easeInQuart", "easeOutQuart", "easeInOutQuart",
   "easeInQuint", "easeOutQuint", "easeInOutQuint"}

\* EasingFunctions[name](t)
EasingFunctions(name, arg) ==
  ByValue(arg, LAMBDA t :
  CASE name = "linear" -> linear(t)
    [] name = "easeInQuad" -> easeInQuad(t)
    [] name = "easeOutQuad" -> easeOutQuad(t)
    [] name = "easeInOutQuad" -> easeInOutQuad(t)
    [] name = "easeInCubic" -> easeInCubic(t)
    [] name = "easeOutCubic" -> easeOutCubic(t)
    [] name = "easeInOutCubic" -> easeInOutCubic(t)
    [] name = "easeInQuart" -> easeInQuart(t)
    [] name = "easeOutQuart" -> easeOutQuart(t)
    [] name = "easeInOutQuart" -> easeInOutQuart(t)
    [] name = "easeInQuint" -> easeInQuint(t)
    [] name = "easeOutQuint" -> easeOutQuint(t)
    [] name = "easeInOutQuint" -> easeInOutQuint(t))

(***************************************************************************)
(* The host: elements, event types, event paths.                           *)
(***************************************************************************)
Elements == {"window", "div"}

\* the four event types of addListeners / removeListeners
EventTypes == {"wheel", "touchstart", "mousedown", "keydown"}

\* the elements an event visits, in order: one dispatched at the window, one
\* dispatched at the div that does not bubble, one that bubbles
EventPaths == {<<"window">>, <<"div">>, <<"div", "window">>}

InPath(el, path) == \E i \in DOMAIN path : path[i] = el

\* identity of run r's animationCompleteHandler function object
Handler(r) == [fn |-> "animationCompleteHandler", run |-> r]

\* `this` inside a listener the host invokes for an event at element el
ThisElement(el) == [object |-> el]

\* `this` inside a plain call f() in strict (module) code
ThisUndefined == [object |-> "undefined"]

(***************************************************************************)
(* src/src/animate.ts                                                      *)
(***************************************************************************)
\* the animate() calls of a behaviour: a first and a second
Runs == {1, 2}

MaxRuns == Cardinality(Runs)

DefaultDuration == 1000

\* timestamps and durations of the model are multiples of Quantum
Quantum == (2 * DefaultDuration) \div 3

\* the value defaultOptions is initialised with
InitialDefaultOptions ==
  [cancelOnUserAction |-> TRUE, element |-> "window",
   easing |-> "linear", duration |-> DefaultDuration]

\* the values the calls of the model override a field with
UserCancelOnUserAction == {FALSE}

UserElements == {"div"}

UserEasings == {"easeInQuad"}

UserDurations == {0 - Quantum, 0, Quantum}

\* the userOptions argument: each field is absent (<<>>) or present (<<v>>)
NoOptions ==
  [cancelOnUserAction |-> <<>>, element |-> <<>>, easing |-> <<>>, duration |-> <<>>]

\* the calls of the model override at most one field each
UserOptions ==
  {NoOptions}
    \cup {[NoOptions EXCEPT !.cancelOnUserAction = <<b>>] : b \in UserCancelOnUserAction}
    \cup {[NoOptions EXCEPT !.element = <<e>>] : e \in UserElements}
    \cup {[NoOptions EXCEPT !.easing = <<f>>] : f \in UserEasings}
    \cup {[NoOptions EXCEPT !.duration = <<d>>] : d \in UserDurations}

\* Object.assign(target, source): the target object itself, with every
\* property present in source overwritten
ObjectAssign(target, source) ==
  [k \in DOMAIN target |-> IF source[k] = <<>> THEN target[k] ELSE source[k][1]]

addListeners_noKeydown(ls, element, handler) ==
  ls \cup {[element |-> element, type |-> t, callback |-> handler] :
             t \in EventTypes \ {"keydown"}}

addListeners(ls, element, handler) ==
  ls \cup {[element |-> element, type |-> t, callback |-> handler] : t \in EventTypes}

removeListeners(ls, target, handler) ==
  ls \ {[element |-> target, type |-> t, callback |-> handler] : t \in EventTypes}

\* The state the callbacks of the driver act on.
World ==
  [run |-> run, frameCallbacks |-> frameCallbacks, nextHandle |-> nextHandle,
   listeners |-> listeners]

requestAnimationFrame_twice(w, r) ==
  [w EXCEPT !.frameCallbacks = @ \cup {[handle |-> w.nextHandle, run |-> r],
                                         [handle |-> w.nextHandle + 1, run |-> r]},
            !.nextHandle = @ + 2]

\* requestAnimationFrame(callback of run r): the new world; the handle
\* returned is w.nextHandle
requestAnimationFrame(w, r) ==
  [w EXCEPT !.frameCallbacks = @ \cup {[handle |-> w.nextHandle, run |-> r]},
            !.nextHandle = @ + 1]

cancelAnimationFrame_any(w, id) ==
  IF id = <<>> THEN w ELSE [w EXCEPT !.frameCallbacks = {}]

\* cancelAnimationFrame(id): id is <<>> (undefined) or <<handle>>
cancelAnimationFrame(w, id) ==
  IF id = <<>> THEN w
  ELSE [w EXCEPT !.frameCallbacks = {c \in @ : c.handle # id[1]}]

\* `x || y` reads x as false when it is undefined or 0
Falsy(x) == IF x = <<>> THEN TRUE ELSE x[1] = 0

shouldContinue_inclusive(startTime, currentTime, targetTime) ==
  currentTime - startTime <= targetTime

shouldContinue(startTime, currentTime, targetTime) ==
  currentTime - startTime < targetTime

\* the closure getEasingValueIterator returns
getEasingValueIterator(startTime, targetTime, easing) ==
  [startTime |-> startTime, targetTime |-> targetTime, easing |-> easing]

\* calling that closure with currentTime
CallIterator(it, currentTime) ==
  EasingFunctions(it.easing,
    Sub(One, Div(Num(it.targetTime - (currentTime - it.startTime)),
                 Num(it.targetTime))))

\* step(value) of run r
step(w, r, value) ==
  [w EXCEPT !.run[r].stepLog = <<value>>,
            !.run[r].stepCount = @ + 1,
            !.run[r].steppedAfterSettle = @ \/ w.run[r].promise = "fulfilled"]

DeadlineValue_eased(it, timestamp) == CallIterator(it, timestamp)

\* the argument of step on the deadline tick: step(1)
DeadlineValue(it, timestamp) == One

resolve_skipped(w, r, via) == w

\* resolve(): settles a pending promise, does nothing to a settled one
resolve(w, r, via) ==
  [w EXCEPT !.run[r].promise = "fulfilled",
            !.run[r].settledBy = IF w.run[r].promise = "pending" THEN via ELSE @]

\* animationCompleteHandler of run r, called with `this`; via names the caller
animationCompleteHandler(w, r, this, via) ==
  LET cancelled(w0) == cancelAnimationFrame(w0, w0.run[r].requestId)
      removed(w1) ==
        IF w1.run[r].opts.cancelOnUserAction
        THEN [w1 EXCEPT !.listeners = removeListeners(@, w1.run[r].opts.element, this)]
        ELSE w1
      counted(w2) ==
        [w2 EXCEPT !.run[r].handlerRan = IF @ = "never" THEN "once" ELSE "again"]
      resolved(w3) == resolve(w3, r, via)
  IN  ByValue(ByValue(ByValue(ByValue(w, cancelled), removed), counted), resolved)

RegistersListeners_always(options) == TRUE

\* whether animate registers the listeners: `if (cancelOnUserAction)`
RegistersListeners(options) == options.cancelOnUserAction

\* a run before its animate() call
NoRun ==
  [userOptions |-> NoOptions, opts |-> InitialDefaultOptions, start |-> <<>>, nextValueIterator |-> <<>>,
   requestId |-> <<>>, promise |-> "none", stepLog |-> <<>>, stepCount |-> 0,
   handlerRan |-> "never", settledBy |-> "none", signalled |-> FALSE,
   steppedAfterSettle |-> FALSE]

animate_sharedOptions(userOptions) ==
  /\ calls < MaxRuns
  /\ LET r == calls + 1
         options == ObjectAssign(defaultOptions, userOptions)
         created(w) ==
           [w EXCEPT !.run = [q \in Runs |->
              IF q = r
              THEN [w.run[q] EXCEPT !.userOptions = userOptions, !.opts = options,
                                    !.promise = "pending"]
              ELSE IF w.run[q].promise # "none"
              THEN [w.run[q] EXCEPT !.opts = options]
              ELSE w.run[q]]]
         listening(w) ==
           IF RegistersListeners(options)
           THEN [w EXCEPT !.listeners = addListeners(@, options.element, Handler(r))]
           ELSE w
         requested(w) == requestAnimationFrame(w, r)
         w2 == ByValue(ByValue(ByValue(World, created), listening), requested)
     IN  /\ calls' = r
         /\ defaultOptions' = options
         /\ run' = w2.run
         /\ frameCallbacks' = w2.frameCallbacks
         /\ nextHandle' = w2.nextHandle
         /\ listeners' = w2.listeners
  /\ UNCHANGED clock
  /\ UNCHANGED probeVars

\* animate(step, userOptions): the r-th call
animate(userOptions) ==
  /\ calls < MaxRuns
  /\ LET r == calls + 1
         options == ObjectAssign(defaultOptions, userOptions)
         created(w) == [w EXCEPT !.run[r].userOptions = userOptions,
                                 !.run[r].opts = options,
                                 !.run[r].promise = "pending"]
         listening(w) ==
           IF RegistersListeners(options)
           THEN [w EXCEPT !.listeners = addListeners(@, options.element, Handler(r))]
           ELSE w
         requested(w) == requestAnimationFrame(w, r)
         w2 == ByValue(ByValue(ByValue(World, created), listening), requested)
     IN  /\ calls' = r
         /\ defaultOptions' = options
         /\ run' = w2.run
         /\ frameCallbacks' = w2.frameCallbacks
         /\ nextHandle' = w2.nextHandle
         /\ listeners' = w2.listeners
  /\ UNCHANGED clock
  /\ UNCHANGED probeVars

\* frame(timestamp) of run r
frame(w, r, timestamp) ==
  LET assigned(w0) ==
        LET start1 == IF Falsy(w0.run[r].start) THEN <<timestamp>> ELSE w0.run[r].start
            it1 == IF w0.run[r].nextValueIterator = <<>>
                   THEN <<getEasingValueIterator(start1[1], w0.run[r].opts.duration,
                                                 w0.run[r].opts.easing)>>
                   ELSE w0.run[r].nextValueIterator
        IN  [w0 EXCEPT !.run[r].start = start1, !.run[r].nextValueIterator = it1]
      continued(w1) ==
        LET stepped(w2) == step(w2, r, CallIterator(w2.run[r].nextValueIterator[1], timestamp))
            requested(w3) ==
              [requestAnimationFrame(w3, r) EXCEPT !.run[r].requestId = <<w3.nextHandle>>]
        IN  ByValue(ByValue(w1, stepped), requested)
      completed(w1) ==
        LET stepped(w2) == step(w2, r, DeadlineValue(w2.run[r].nextValueIterator[1], timestamp))
            complete(w3) == animationCompleteHandler(w3, r, ThisUndefined, "deadline")
        IN  ByValue(ByValue(w1, stepped), complete)
      branch(w1) ==
        IF shouldContinue(w1.run[r].start[1], timestamp, w1.run[r].opts.duration)
        THEN continued(w1)
        ELSE completed(w1)
  IN  ByValue(ByValue(w, assigned), branch)

MinHandle(cs) == CHOOSE c \in cs : \A d \in cs : c.handle <= d.handle

\* The host runs the callbacks of list `todo` in the order they were
\* requested, skipping those cancelled in the meantime.
RECURSIVE runCallbacks(_, _, _)
runCallbacks(w, todo, timestamp) ==
  IF todo = {} THEN w
  ELSE LET c == MinHandle(todo)
           called(w0) ==
             IF c \in w0.frameCallbacks
             THEN frame([w0 EXCEPT !.frameCallbacks = @ \ {c}], c.run, timestamp)
             ELSE w0
           rest(w1) == runCallbacks(w1, todo \ {c}, timestamp)
       IN  ByValue(ByValue(w, called), rest)

\* the timestamps the next frame can have: any for the first frame, later
\* than the latest frame's for the others
NextTimestamps ==
  IF clock = <<>> THEN {k * Quantum : k \in 0..MaxDelta}
  ELSE {clock[1] + k * Quantum : k \in 1..MaxDelta}

\* The host delivers a frame: every callback pending when it begins runs with
\* the frame's timestamp.
Frame(ts) ==
  /\ frameCallbacks # {}
  /\ \E w \in {runCallbacks(World, frameCallbacks, ts)} :
         /\ run' = w.run
         /\ frameCallbacks' = w.frameCallbacks
         /\ nextHandle' = w.nextHandle
         /\ listeners' = w.listeners
  /\ clock' = <<ts>>
  /\ UNCHANGED <<defaultOptions, calls>>
  /\ UNCHANGED probeVars

\* The host invokes, element by element along the path and in registration
\* order, every listener of `type` that is still registered when reached.
RECURSIVE dispatch(_, _, _, _)
dispatch(w, type, path, r) ==
  IF path = <<>> THEN w
  ELSE IF r > MaxRuns THEN dispatch(w, type, Tail(path), 1)
  ELSE LET l == [element |-> Head(path), type |-> type, callback |-> Handler(r)]
           invoked(w0) ==
             IF l \in w0.listeners
             THEN animationCompleteHandler(w0, r, ThisElement(Head(path)), "signal")
             ELSE w0
           rest(w1) == dispatch(w1, type, path, r + 1)
       IN  ByValue(ByValue(w, invoked), rest)

\* An interaction event of `type` travels along `path`.
Signal(type, path) ==
  \E w \in {dispatch(World, type, path, 1)} :
      /\ run' = [r \in Runs |->
                   [w.run[r] EXCEPT !.signalled =
                      \/ @
                      \/ run[r].promise = "pending" /\ InPath(run[r].opts.element, path)]]
      /\ frameCallbacks' = w.frameCallbacks
      /\ nextHandle' = w.nextHandle
      /\ listeners' = w.listeners
      /\ UNCHANGED <<defaultOptions, calls, clock>>
      /\ UNCHANGED probeVars

ProbeInit ==
  /\ probeFn = "linear"
  /\ probeArg = Zero
  /\ probeResult = <<>>
  /\ probeDone = 0

RunInit ==
  /\ defaultOptions = InitialDefaultOptions
  /\ calls = 0
  /\ run = [r \in Runs |-> NoRun]
  /\ frameCallbacks = {}
  /\ nextHandle = 1
  /\ listeners = {}
  /\ clock = <<>>

Init == RunInit /\ ProbeInit

Next ==
  \/ \E u \in UserOptions : animate(u)
  \/ \E ts \in NextTimestamps : Frame(ts)
  \/ \E type \in EventTypes, path \in EventPaths : Signal(type, path)

Spec == Init /\ [][Next]_vars

\* The host keeps delivering frames while a callback is pending.
LiveSpec == Spec /\ WF_vars(\E ts \in NextTimestamps : Frame(ts))

(***************************************************************************)
(* The easing probe: an easing function applied to an argument of a grid.  *)
(***************************************************************************)
ProbeArgs == {Norm(k, MaxProbeDen) : k \in 0..(2 * MaxProbeDen)}

EasingInit ==
  /\ RunInit
  /\ probeFn \in EasingNames
  /\ probeArg \in ProbeArgs
  /\ probeResult = <<>>
  /\ probeDone = 0

\* f(t) for the chosen function and argument
EasingCall ==
  /\ probeResult = <<>>
  /\ probeResult' = <<EasingFunctions(probeFn, probeArg)>>
  /\ probeDone' = probeDone + 1
  /\ UNCHANGED <<probeFn, probeArg>>
  /\ UNCHANGED runVars

\* the caller picks the next function and argument
EasingPick ==
  /\ probeResult # <<>>
  /\ probeDone < MaxProbes
  /\ \E f \in EasingNames, t \in ProbeArgs :
       /\ probeFn' = f
       /\ probeArg' = t
  /\ probeResult' = <<>>
  /\ UNCHANGED probeDone
  /\ UNCHANGED runVars

EasingNext == EasingCall \/ EasingPick

EasingSpec == EasingInit /\ [][EasingNext]_vars

(***************************************************************************)
(* Properties.                                                             *)
(***************************************************************************)
Called(r) == run[r].promise # "none"

Settled(r) == run[r].promise = "fulfilled"

\* a tick of run r is scheduled
Pending(r) == \E c \in frameCallbacks : c.run = r

Registered(r) == \E l \in listeners : l.callback = Handler(r)

\* the value last passed to step is below 1 (or step was never called)
LastStepBelowOne(r) ==
  IF run[r].stepLog = <<>> THEN TRUE ELSE Lt(run[r].stepLog[1], One)

\* C1: a run that settles on its deadline tick (it was not cancelled by a
\* signal) has step(1) as its last step call, made before the promise
\* resolved: no tick of it stays scheduled and step is not called afterwards,
\* whatever the easing function and the duration.
C1_FinalStepIsOne ==
  \A r \in Runs :
    run[r].settledBy = "deadline" =>
      /\ run[r].stepLog = <<One>>
      /\ ~Pending(r)
      /\ ~run[r].steppedAfterSettle

C1_Witness ==
  \E r \in Runs :
    /\ run[r].settledBy = "deadline"
    /\ run[r].opts.easing # "linear"
    /\ run[r].opts.cancelOnUserAction
    /\ run[r].stepCount > 1
    /\ run[r].stepLog = <<One>>

\* C2: with cancelOnUserAction and linear easing, a signal that reaches the
\* element of a run whose promise is pending settles the promise, and the
\* value last passed to step at that moment is below 1.
C2_SignalCancelsBelowOne ==
  \A r \in Runs :
    (run[r].opts.cancelOnUserAction /\ run[r].opts.easing = "linear") =>
      /\ run[r].signalled => (Settled(r) /\ run[r].settledBy = "signal")
      /\ (run[r].settledBy = "signal" /\ ~run[r].steppedAfterSettle)
           => LastStepBelowOne(r)

\* C3: with cancelOnUserAction false a run registers no listener, a signal
\* never runs its completion handler, its tick stays scheduled until it
\* settles, and it settles only on its deadline tick, after step(1).
C3_SignalsIgnored ==
  \A r \in Runs :
    (Called(r) /\ ~run[r].opts.cancelOnUserAction) =>
      /\ ~Registered(r)
      /\ run[r].settledBy # "signal"
      /\ run[r].handlerRan # "again"
      /\ ~Settled(r) => (Pending(r) /\ run[r].handlerRan = "never")
      /\ Settled(r) =>
           /\ run[r].settledBy = "deadline"
           /\ run[r].stepLog = <<One>>
           /\ ~Pending(r)

C3_Witness ==
  \E r \in Runs :
    /\ ~run[r].opts.cancelOnUserAction
    /\ run[r].signalled
    /\ run[r].stepCount > 1
    /\ Settled(r)
    /\ run[r].stepLog = <<One>>

\* C4: the shared defaults record is never changed, and a call uses the
\* documented default for every field it omits.
C4_DefaultsUnchanged ==
  /\ defaultOptions = InitialDefaultOptions
  /\ \A r \in Runs : \A k \in DOMAIN NoOptions :
       (Called(r) /\ run[r].userOptions[k] = <<>>)
         => run[r].opts[k] = InitialDefaultOptions[k]

\* C5: once a run that registered listeners has settled, none of its
\* listeners is registered any more.
C5_ListenersRemoved ==
  \A r \in Runs :
    (run[r].opts.cancelOnUserAction /\ Settled(r)) => ~Registered(r)

\* C6: the completion handler of a run executes at most once.
C6_HandlerRunsOnce ==
  \A r \in Runs : run[r].handlerRan # "again"

\* C7: a run whose promise a signal settled has no tick scheduled and step is
\* not called for it again.
C7_CancelStopsTicks ==
  \A r \in Runs :
    run[r].settledBy = "signal" => (~Pending(r) /\ ~run[r].steppedAfterSettle)

\* C8: a run with duration <= 0 that no signal reached while it was pending
\* calls step(1) on its first tick and settles there: step is called once and
\* no further tick is scheduled.
C8_NonPositiveDuration ==
  \A r \in Runs :
    (Called(r) /\ run[r].opts.duration <= 0 /\ ~run[r].signalled) =>
      IF run[r].stepCount = 0
      THEN Pending(r) /\ ~Settled(r)
      ELSE /\ run[r].stepCount = 1
           /\ run[r].stepLog = <<One>>
           /\ run[r].settledBy = "deadline"
           /\ ~Pending(r)

C8_Witness ==
  /\ \E r \in Runs :
       run[r].opts.duration = 0 /\ ~run[r].signalled /\ run[r].stepCount = 1
  /\ \E r \in Runs :
       run[r].opts.duration < 0 /\ ~run[r].signalled /\ run[r].stepCount = 1

\* C9: while frames keep coming every run settles; the promise is never in
\* another state than pending or fulfilled; a run no signal reached settles
\* on its deadline tick with step(1); and a settled run was settled by its
\* deadline tick or by a signal that reached it.
C9_EventuallySettles ==
  /\ \A r \in Runs :
       Called(r) ~> (Settled(r) /\ (~run[r].signalled =>
                                      /\ run[r].settledBy = "deadline"
                                      /\ run[r].stepLog = <<One>>))
  /\ [](\A r \in Runs :
          /\ run[r].promise \in {"none", "pending", "fulfilled"}
          /\ Settled(r) =>
               \/ run[r].settledBy = "deadline" /\ run[r].stepCount > 0
               \/ run[r].settledBy = "signal" /\ run[r].signalled)

C9_Witness ==
  \E r \in Runs :
    /\ Settled(r)
    /\ ~run[r].signalled
    /\ run[r].opts.duration > 0
    /\ run[r].stepCount > 1
    /\ run[r].stepLog = <<One>>

\* C10: each of the thirteen easing functions maps 0 to 0 and 1 to 1.
C10_EasingEndpoints ==
  probeResult # <<>> =>
    /\ probeArg = Zero => probeResult[1] = Zero
    /\ probeArg = One => probeResult[1] = One

C10_Witness ==
  /\ probeFn = "easeInOutQuint"
  /\ probeArg = One
  /\ probeResult = <<One>>
  /\ probeDone = MaxProbes

\* the ticks of run r that are scheduled
Ticks(cs, r) == {c \in cs : c.run = r}

\* C11: a run has at most one tick scheduled at any time; a tick of a run is
\* scheduled either by its animate call or by a tick of the run that has just
\* executed (and called step), one at a time.
C11_OnePendingTick ==
  /\ [](\A r \in Runs : Cardinality(Ticks(frameCallbacks, r)) <= 1)
  /\ [][\A r \in Runs :
          LET new == Ticks(frameCallbacks', r) \ Ticks(frameCallbacks, r)
          IN  /\ Cardinality(new) <= 1
              /\ new # {} =>
                   \/ run[r].promise = "none" /\ run'[r].promise = "pending"
                   \/ /\ Ticks(frameCallbacks, r) # {}
                      /\ Ticks(frameCallbacks, r) \cap frameCallbacks' = {}
                      /\ run'[r].stepCount = run[r].stepCount + 1]_vars

C11_Witness ==
  \E r \in Runs :
    /\ run[r].stepCount > 1
    /\ Cardinality(Ticks(frameCallbacks, r)) = 1
    /\ run[r].requestId = <<(CHOOSE c \in Ticks(frameCallbacks, r) : TRUE).handle>>

\* C12: the start timestamp of a run is the timestamp of its first tick on
\* every later tick too, a first timestamp of 0 included; so a run whose
\* latest tick did not complete it has not reached first tick + duration.
C12_StartFixedOnFirstTick ==
  \A r \in Runs :
    run[r].nextValueIterator # <<>> =>
      /\ run[r].start = <<run[r].nextValueIterator[1].startTime>>
      /\ (~Settled(r) /\ Pending(r)) =>
           clock[1] - run[r].nextValueIterator[1].startTime < run[r].opts.duration

\* x is a number of [0, 1)
InUnitInterval(x) == x.d # 0 /\ ~Lt(x, Zero) /\ Lt(x, One)

\* elapsed time over duration at the latest frame, counted from the first tick
ElapsedFraction(r) ==
  Div(Num(clock[1] - run[r].nextValueIterator[1].startTime), Num(run[r].opts.duration))

\* C13: after a tick of a run with duration > 0 that did not complete it (the
\* next tick is scheduled), the value passed to step is the easing of
\* (timestamp - first tick's timestamp) / duration, that fraction is in [0, 1),
\* with linear easing so is the value, and the deadline test used the start
\* timestamp the fraction is counted from.
C13_IntermediateFraction ==
  \A r \in Runs :
    (Pending(r) /\ run[r].stepLog # <<>> /\ run[r].opts.duration > 0) =>
      /\ run[r].stepLog = <<EasingFunctions(run[r].opts.easing, ElapsedFraction(r))>>
      /\ InUnitInterval(ElapsedFraction(r))
      /\ run[r].opts.easing = "linear" => InUnitInterval(run[r].stepLog[1])
      /\ run[r].start = <<run[r].nextValueIterator[1].startTime>>

\* the listeners whose callback is run r's handler
ListenersOf(ls, r) == {l \in ls : l.callback = Handler(r)}

\* the four registrations of run r's handler on its element
FourListeners(r, element) ==
  {[element |-> element, type |-> t, callback |-> Handler(r)] :
     t \in {"wheel", "touchstart", "mousedown", "keydown"}}

\* C14: an animate call whose effective cancelOnUserAction is true registers
\* its one handler on its element for wheel, touchstart, mousedown and keydown
\* and nothing else, and they are registered when its first tick is scheduled
\* and has not run; a call whose cancelOnUserAction is false registers nothing.
C14_RegistersFourListeners ==
  /\ [][calls' = calls + 1 =>
          LET r == calls'
          IN  listeners' \ listeners =
                IF run'[r].opts.cancelOnUserAction
                THEN FourListeners(r, run'[r].opts.element)
                ELSE {}]_vars
  /\ [](\A r \in Runs :
          (Pending(r) /\ run[r].stepCount = 0) =>
             ListenersOf(listeners, r) =
               IF run[r].opts.cancelOnUserAction
               THEN FourListeners(r, run[r].opts.element)
               ELSE {})

C14_Witness ==
  /\ Pending(1) /\ run[1].stepCount = 0
  /\ run[1].opts.cancelOnUserAction
  /\ run[1].opts.element = "div"
  /\ Cardinality(ListenersOf(listeners, 1)) = 4
  /\ Pending(2) /\ run[2].stepCount = 0
  /\ ~run[2].opts.cancelOnUserAction
  /\ ListenersOf(listeners, 2) = {}

\* the fields of the options a call overrides have the values it passed
OverridesApplied(r) ==
  \A k \in DOMAIN run[r].userOptions :
    run[r].userOptions[k] # <<>> => run[r].opts[k] = run[r].userOptions[k][1]

\* C15: the options of a run are those of its animate call for as long as the
\* program runs, whatever later calls override: the fields the call passed
\* keep the passed values, no step changes the run's duration, easing,
\* cancellation policy or element, and the easing iterator made on its first
\* tick has that duration and easing.
C15_OptionsImmutable ==
  /\ [](\A r \in Runs :
          Called(r) =>
            /\ OverridesApplied(r)
            /\ run[r].nextValueIterator # <<>> =>
                 /\ run[r].nextValueIterator[1].targetTime = run[r].opts.duration
                 /\ run[r].nextValueIterator[1].easing = run[r].opts.easing)
  /\ [][\A r \in Runs : Called(r) => run'[r].opts = run[r].opts]_vars

C15_Witness ==
  /\ Pending(1) /\ Pending(2)
  /\ run[1].stepCount = 2
  /\ run[2].stepCount = 1
  /\ run[1].opts.duration = DefaultDuration
  /\ run[1].nextValueIterator[1].targetTime = DefaultDuration
  /\ run[2].opts.duration = Quantum
  /\ defaultOptions.duration = Quantum

\* C16: runs do not interfere.  The handle a run's handler cancels is never
\* that of another run's tick; a scheduled tick of a run goes away only by
\* running or by the run's own handle being cancelled; a promise is fulfilled
\* only by the run's own final tick or by a signal that reached the run's own
\* listeners; and a run with cancelOnUserAction false, whatever runs came
\* before it and whatever signals fire, ends with step(1) on its deadline.
C16_RunsIsolated ==
  /\ [](\A r \in Runs, s \in Runs :
          (r # s /\ run[r].requestId # <<>>) =>
            \A c \in Ticks(frameCallbacks, s) : c.handle # run[r].requestId[1])
  /\ [][\A s \in Runs :
          /\ (Ticks(frameCallbacks, s) \ frameCallbacks' # {}
                /\ run'[s].stepCount = run[s].stepCount) =>
               \A c \in Ticks(frameCallbacks, s) \ frameCallbacks' :
                 run[s].requestId = <<c.handle>>
          /\ (run[s].promise = "pending" /\ run'[s].promise = "fulfilled") =>
               \/ /\ run'[s].stepCount = run[s].stepCount + 1
                  /\ run'[s].stepLog = <<One>>
                  /\ Ticks(frameCallbacks', s) = {}
               \/ /\ run'[s].signalled
                  /\ run[s].opts.cancelOnUserAction
                  /\ ListenersOf(listeners, s) # {}]_vars
  /\ \A s \in Runs :
       (Called(s) /\ ~run[s].opts.cancelOnUserAction)
         ~> (Settled(s) /\ run[s].settledBy = "deadline" /\ run[s].stepLog = <<One>>)

C16_Witness ==
  /\ run[1].opts.cancelOnUserAction
  /\ run[1].settledBy = "signal"
  /\ run[1].stepCount = 1
  /\ Ticks(frameCallbacks, 1) = {}
  /\ ~run[2].opts.cancelOnUserAction
  /\ run[2].start = run[1].start
  /\ run[2].start # <<0>>
  /\ run[2].stepCount > 2
  /\ run[2].settledBy = "deadline"
  /\ run[2].stepLog = <<One>>

====
